---- MODULE Spec2Model ----
(***************************************************************************)
(* Model of texoutparse: src/src/parser.rs (LogParser, the five regular    *)
(* expressions, parse_log) and src/src/report.rs (MessageInfo, Message,    *)
(* BuildReport).                                                           *)
(*                                                                         *)
(* Text.  A Rust String is modelled as a sequence of lexical tokens, each  *)
(* token a TLA+ string standing for the characters it spells.  Tokens are  *)
(* of four sorts: word tokens (runs of \w characters; digits are word      *)
(* tokens of one character), whitespace tokens (" ", "\t", "\n"),          *)
(* punctuation tokens of one character, and literal phrases of the BADBOX  *)
(* and MISSING_REFERENCE patterns, which only those two matchers compare.  *)
(* The regular expressions are translated over tokens: \w+ is a maximal    *)
(* run of word tokens, \d+ a run of digit tokens, a dot any one token but  *)
(* "\n", and a rest-of-line capture everything up to the first "\n".        *)
(*                                                                         *)
(* The grave accent cannot be written in a string of this language: the    *)
(* token " {grave}" spells a space and a grave accent.                     *)
(*                                                                         *)
(* Option<T> is modelled as a sequence of length at most one: None is      *)
(* << >> and Some(x) is << x >>.                                           *)
(***************************************************************************)
EXTENDS Integers, Sequences, FiniteSets, TLC

VARIABLES
    report,             \* LogParser.report: the BuildReport being filled
    lineno,             \* LogParser.lineno
    collect_remaining,  \* LogParser.collect_remaining
    context_lines,      \* LogParser.context_lines (the tunable)
    pc,                 \* "parse" | "test" | "done" | "panicked"
    reader,             \* LogParser.reader: the reads still to come
    pending,            \* the argument of a direct parse_line call (tests::create_parser)
    consumed,           \* history: the lines next_line has returned, in order
    history,            \* history: history[n] is the report after the n-th consumed line
    last_op,            \* history: what the last step did with its line
    failed_at           \* history: the number of lines read before read_line returned Err, or -1

vars == << report, lineno, collect_remaining, context_lines, pc, reader, pending,
           consumed, history, last_op, failed_at >>

----------------------------------------------------------------------------
(* Options and strings                                                     *)

None == << >>

Some(x) == << x >>

IsSome(o) == Len(o) > 0

Unwrap(o) == o[1]

\* The token at position i, or "" (no token) past either end of the text.
At(s, i) == IF i \in 1..Len(s) THEN s[i] ELSE ""

\* s[i..] (empty when i is past the end)
From(s, i) == IF i > Len(s) THEN << >> ELSE SubSeq(s, i, Len(s))

\* s[i..j] (empty when j < i)
Slice(s, i, j) == IF j < i THEN << >> ELSE SubSeq(s, i, j)

DigitTok == {"1", "2", "5", "7"}

TypeTok == {"LaTeX", "pdfTeX", "Package", "Class"}

WarningKw == {"Warning", "warning"}

InfoKw == {"Info", "info"}

ErrorKw == {"Error", "error"}

NameTok == {"babel", "article", "Font", "foo", "bar", "pdfsetmatrix", "wide", "high"}

\* the tokens made of \w characters only
WordTok == DigitTok \cup TypeTok \cup WarningKw \cup InfoKw \cup ErrorKw \cup NameTok
              \cup {"Citation", "Reference"}

\* char::is_whitespace
WhiteTok == {" ", "\t", "\n"}

\* str::starts_with
StartsWith(s, p) == Len(p) <= Len(s) /\ SubSeq(s, 1, Len(p)) = p

\* str::trim_start_matches: every repetition of the prefix is removed
RECURSIVE TrimStartMatches(_, _)
TrimStartMatches(s, p) ==
    IF Len(p) > 0 /\ StartsWith(s, p)
    THEN TrimStartMatches(From(s, Len(p) + 1), p)
    ELSE s

\* str::trim_start: leading whitespace removed
RECURSIVE TrimStart(_)
TrimStart(s) ==
    IF Len(s) > 0 /\ s[1] \in WhiteTok THEN TrimStart(Tail(s)) ELSE s

\* the last position of the run of tokens of class cls that starts at i (i-1 if none)
RECURSIVE RunEnd(_, _, _)
RunEnd(s, i, cls) ==
    IF At(s, i) \in cls THEN RunEnd(s, i + 1, cls) ELSE i - 1

\* the position of the first "\n" at or after i, or Len(s)+1: where a rest-of-line capture stops
RECURSIVE LineEnd(_, _)
LineEnd(s, i) ==
    IF i > Len(s) \/ s[i] = "\n" THEN i ELSE LineEnd(s, i + 1)

----------------------------------------------------------------------------
(* The patterns (parser.rs, lazy_static block).  A match is a record       *)
(* [matched, full, g]: full is capture 0 and g[k] is capture k as an       *)
(* Option.                                                                 *)

NoMatch == [matched |-> FALSE, full |-> << >>, g |-> << >>]

\* What follows the keyword, from position p:  (?: \(([\\]?\w+)\))?: 
\* The result names the position where the message capture starts.
GenericTail(line, p) ==
    LET b == IF At(line, p + 2) = "\\" THEN 1 ELSE 0
        e == RunEnd(line, p + 2 + b, WordTok)
    IN  IF /\ At(line, p) = " " /\ At(line, p + 1) = "("
           /\ e >= p + 2 + b
           /\ At(line, e + 1) = ")" /\ At(line, e + 2) = ":" /\ At(line, e + 3) = " "
        THEN [matched |-> TRUE, extra |-> Some(Slice(line, p + 2, e)), msg |-> e + 4]
        ELSE IF At(line, p) = ":" /\ At(line, p + 1) = " "
        THEN [matched |-> TRUE, extra |-> None, msg |-> p + 2]
        ELSE [matched |-> FALSE, extra |-> None, msg |-> 0]

\* The shape ERROR (first alternative), WARNING and INFO share, from position i:
\*   ((?:La|pdf)TeX|Package|Class)(?: (\w+))? [kK]eyword(?: \(([\\]?\w+)\))?: rest-of-line
\* kws is the pair of spellings of the keyword.  Captures 1..4.
GenericCaptures(line, i, kws) ==
    LET j     == RunEnd(line, i + 2, WordTok)
        head  == At(line, i) \in TypeTok /\ At(line, i + 1) = " "
        named == /\ head /\ j >= i + 2
                 /\ At(line, j + 1) = " " /\ At(line, j + 2) \in kws
                 /\ GenericTail(line, j + 3).matched
        plain == head /\ At(line, i + 2) \in kws /\ GenericTail(line, i + 3).matched
        t     == IF named THEN GenericTail(line, j + 3) ELSE GenericTail(line, i + 3)
    IN  IF named \/ plain
        THEN [matched |-> TRUE,
              full |-> Slice(line, 1, LineEnd(line, t.msg) - 1),
              g |-> << Some(<< line[i] >>),
                       IF named THEN Some(Slice(line, i + 2, j)) ELSE None,
                       t.extra,
                       Some(Slice(line, t.msg, LineEnd(line, t.msg) - 1)) >>]
        ELSE NoMatch

\* ^(?:! <generic with [eE]rror>|! rest-of-line)        captures 1..5
ERROR(line) ==
    IF At(line, 1) = "!" /\ At(line, 2) = " "
    THEN LET c == GenericCaptures(line, 3, ErrorKw)
         IN  IF c.matched
             THEN [c EXCEPT !.g = c.g \o << None >>]
             ELSE [matched |-> TRUE,
                   full |-> Slice(line, 1, LineEnd(line, 3) - 1),
                   g |-> << None, None, None, None,
                            Some(Slice(line, 3, LineEnd(line, 3) - 1)) >>]
    ELSE NoMatch

\* ^<generic with [wW]arning>                            captures 1..4
WARNING(line) == GenericCaptures(line, 1, WarningKw)

\* ^<generic with [iI]nfo>                               captures 1..4
INFO(line) == GenericCaptures(line, 1, InfoKw)

\* ^(Over|Under)full \\([hv])box \((?:badness (\d+)|(\d+(?:\.\d+)?pt) too \w+)\)
\*   (?:(?:(?:in paragraph|in alignment|detected) (?:at lines (\d+)--(\d+)|at line (\d+)))
\*      |(?:has occurred while [\\]output is active [\[](\d+)?[\]]))
\* captures 1..8.  The literal stretches of the pattern are single tokens.
BADBOX(line) ==
    LET \* the measure, from position 5
        bEnd  == RunEnd(line, 6, DigitTok)
        isBad == At(line, 5) = "badness " /\ bEnd >= 6
        i1    == RunEnd(line, 5, DigitTok)
        f1    == RunEnd(line, i1 + 2, DigitTok)
        frac  == At(line, i1 + 1) = "." /\ f1 >= i1 + 2
        nEnd  == IF frac THEN f1 ELSE i1
        wEnd  == RunEnd(line, nEnd + 3, WordTok)
        isPt  == /\ i1 >= 5 /\ At(line, nEnd + 1) = "pt" /\ At(line, nEnd + 2) = " too "
                 /\ wEnd >= nEnd + 3
        mEnd  == IF isBad THEN bEnd ELSE wEnd
        \* the location clause, from position q
        q     == mEnd + 2
        sEnd  == RunEnd(line, q + 3, DigitTok)
        eEnd  == RunEnd(line, sEnd + 2, DigitTok)
        place == At(line, q) \in {"in paragraph", "in alignment", "detected"} /\ At(line, q + 1) = " "
        range == /\ place /\ At(line, q + 2) = "at lines " /\ sEnd >= q + 3
                 /\ At(line, sEnd + 1) = "--" /\ eEnd >= sEnd + 2
        one   == place /\ At(line, q + 2) = "at line " /\ sEnd >= q + 3
        pEnd  == RunEnd(line, q + 1, DigitTok)
        outp  == /\ At(line, q) = "has occurred while \\output is active ["
                 /\ At(line, pEnd + 1) = "]"
        stop  == IF range THEN eEnd ELSE IF one THEN sEnd ELSE pEnd + 1
    IN  IF /\ At(line, 1) \in {"Over", "Under"} /\ At(line, 2) = "full \\"
           /\ At(line, 3) \in {"h", "v"} /\ At(line, 4) = "box ("
           /\ (isBad \/ isPt)
           /\ At(line, mEnd + 1) = ") "
           /\ (range \/ one \/ outp)
        THEN [matched |-> TRUE,
              full |-> Slice(line, 1, stop),
              g |-> << Some(<< line[1] >>),
                       Some(<< line[3] >>),
                       IF isBad THEN Some(Slice(line, 6, bEnd)) ELSE None,
                       IF isBad THEN None ELSE Some(Slice(line, 5, nEnd + 1)),
                       IF range THEN Some(Slice(line, q + 3, sEnd)) ELSE None,
                       IF range THEN Some(Slice(line, sEnd + 2, eEnd)) ELSE None,
                       IF ~range /\ one THEN Some(Slice(line, q + 3, sEnd)) ELSE None,
                       IF ~range /\ ~one /\ pEnd >= q + 1
                           THEN Some(Slice(line, q + 1, pEnd)) ELSE None >>]
        ELSE NoMatch

\* the first position at or after i whose token holds a quote, or Len(s)+1
RECURSIVE QuotePos(_, _)
QuotePos(s, i) ==
    IF i > Len(s) \/ s[i] \in {"'", "' on page "} THEN i ELSE QuotePos(s, i + 1)

\* ^(Citation|Reference) {grave}([^']+)' on page \d+ undefined on input line \d+.
\* captures 1..2.  The last element of the pattern is an unescaped dot: any one
\* character but a line feed.  When nothing follows the digits, \d+ gives its
\* last digit back to the dot, which needs two digits at least.
MISSING_REFERENCE(message) ==
    LET k    == QuotePos(message, 3)
        pg   == RunEnd(message, k + 1, DigitTok)
        ln   == RunEnd(message, pg + 2, DigitTok)
        dot  == \/ At(message, ln + 1) \notin {"", "\n"}
                \/ ln >= pg + 3
    IN  IF /\ At(message, 1) \in {"Citation", "Reference"} /\ At(message, 2) = " {grave}"
           /\ k > 3 /\ At(message, k) = "' on page "
           /\ pg >= k + 1
           /\ At(message, pg + 1) = " undefined on input line "
           /\ ln >= pg + 2
           /\ dot
        THEN [matched |-> TRUE,
              full |-> Slice(message, 1, IF At(message, ln + 1) \notin {"", "\n"} THEN ln + 1 ELSE ln),
              g |-> << Some(<< message[1] >>), Some(Slice(message, 3, k - 1)) >>]
        ELSE NoMatch

\* Captures::get
Get(m, k) == m.g[k]

----------------------------------------------------------------------------
(* report.rs                                                               *)

\* HashMap::new
EmptyMap == [k \in {} |-> << >>]

\* HashMap::insert
Insert(d, key, v) == [k \in DOMAIN d \cup {key} |-> IF k = key THEN v ELSE d[k]]

\* struct MessageInfo
MessageInfo(full, details) ==
    [full |-> full, details |-> details, context_lines |-> << >>]

\* enum Message: the four variants that wrap a MessageInfo
Wrap(kind, info) == [kind |-> kind, info |-> info]

\* enum Message: MissingCitation { label } and MissingReference { label }
Labelled(kind, label) == [kind |-> kind, label |-> label]

InfoKinds == {"Error", "Warning", "Badbox", "Info"}

\* BuildReport::new
NewReport ==
    [errors |-> 0, warnings |-> 0, badboxes |-> 0, info |-> 0,
     missing_references |-> 0, missing_citations |-> 0, messages |-> << >>]

\* MessageInfo::get_component_name
InfoComponentName(info) ==
    IF "component" \in DOMAIN info.details THEN Some(info.details["component"])
    ELSE IF "package" \in DOMAIN info.details THEN Some(info.details["package"])
    ELSE IF "class" \in DOMAIN info.details THEN Some(info.details["class"])
    ELSE None

\* get_component_name with the Info arm of the match left out
get_component_name_without_info(msg) ==
    IF msg.kind \in {"Error", "Warning"} THEN InfoComponentName(msg.info) ELSE None

\* Message::get_component_name
get_component_name(msg) ==
    IF msg.kind \in {"Error", "Warning", "Info"} THEN InfoComponentName(msg.info) ELSE None

\* extend_message storing the new text in place of the message it has
InfoExtendMessage_overwrites(info, message) ==
    [info EXCEPT !.details = Insert(@, "message", message)]

\* MessageInfo::extend_message
InfoExtendMessage(info, message) ==
    IF "message" \in DOMAIN info.details
    THEN [info EXCEPT !.details["message"] = @ \o message]
    ELSE [info EXCEPT !.details = Insert(@, "message", message)]

\* Message::as_mut
as_mut(msg) == IF msg.kind \in InfoKinds THEN Some(msg.info) ELSE None

\* Message::extend_message: as_mut().unwrap() panics on the two label variants
extend_message(msg, message) ==
    IF IsSome(as_mut(msg))
    THEN [panicked |-> FALSE, msg |-> [msg EXCEPT !.info = InfoExtendMessage(@, message)]]
    ELSE [panicked |-> TRUE, msg |-> msg]

----------------------------------------------------------------------------
(* parser.rs: LogParser.  self is [report, lineno, collect_remaining,      *)
(* context_lines]; an operation yields [panicked, self], panicked when an  *)
(* unwrap() met None, with self as it was when the panic was raised.       *)

Ok(self) == [panicked |-> FALSE, self |-> self]

Panic(self) == [panicked |-> TRUE, self |-> self]

Push(self, msg) == [self EXCEPT !.report.messages = Append(@, msg)]

\* LogParser::new
new(ctx) ==
    [report |-> NewReport, lineno |-> 0, collect_remaining |-> 0, context_lines |-> ctx]

\* LogParser::after_match (its four call sites in parse_line are commented out)
after_match(self) == [self EXCEPT !.collect_remaining = self.context_lines]

\* LogParser::process_generic.  Captures 1 and 4 always take part in a match
\* of the shared shape, so their unwrap() cannot fail.
process_generic(m) ==
    LET type_name == Unwrap(Get(m, 1))
        key == IF type_name = << "Package" >> THEN "package"
               ELSE IF type_name = << "Class" >> THEN "class"
               ELSE "component"
        d1 == Insert(EmptyMap, "type", type_name)
        d2 == IF IsSome(Get(m, 2)) THEN Insert(d1, key, Unwrap(Get(m, 2))) ELSE d1
        d3 == IF IsSome(Get(m, 3)) THEN Insert(d2, "extra", Unwrap(Get(m, 3))) ELSE d2
    IN  MessageInfo(m.full, Insert(d3, "message", Unwrap(Get(m, 4))))

\* LogParser::process_info
process_info(self, m) ==
    Ok(Push([self EXCEPT !.report.info = @ + 1], Wrap("Info", process_generic(m))))

\* LogParser::process_badbox
process_badbox(self, m) ==
    LET box_type == Unwrap(Get(m, 1))
        d2 == Insert(Insert(EmptyMap, "type", box_type), "direction", Unwrap(Get(m, 2)))
        byPanics == \/ box_type = << "Over" >> /\ ~IsSome(Get(m, 4))
                    \/ box_type = << "Under" >> /\ ~IsSome(Get(m, 3))
        d3 == IF box_type = << "Over" >> THEN Insert(d2, "by", Unwrap(Get(m, 4)))
              ELSE IF box_type = << "Under" >> THEN Insert(d2, "by", Unwrap(Get(m, 3)))
              ELSE d2
        d4 == IF IsSome(Get(m, 7)) THEN Insert(d3, "line", Unwrap(Get(m, 7)))
              ELSE IF IsSome(Get(m, 5))
                   THEN Insert(Insert(d3, "start_line", Unwrap(Get(m, 5))),
                               "end_line", Unwrap(Get(m, 6)))
              ELSE d3
        d5 == IF IsSome(Get(m, 8)) THEN Insert(d4, "page", Unwrap(Get(m, 8))) ELSE d4
    IN  IF byPanics \/ (~IsSome(Get(m, 7)) /\ IsSome(Get(m, 5)) /\ ~IsSome(Get(m, 6)))
        THEN Panic(self)
        ELSE Ok(Push([self EXCEPT !.report.badboxes = @ + 1],
                     Wrap("Badbox", MessageInfo(m.full, d5))))

\* LogParser::process_missing_reference
process_missing_reference(self, label) ==
    Push([self EXCEPT !.report.missing_references = @ + 1],
         Labelled("MissingReference", label))

\* process_missing_citation with the counter of process_missing_reference
process_missing_citation_wrong_counter(self, label) ==
    Push([self EXCEPT !.report.missing_references = @ + 1],
         Labelled("MissingCitation", label))

\* LogParser::process_missing_citation
process_missing_citation(self, label) ==
    Push([self EXCEPT !.report.missing_citations = @ + 1],
         Labelled("MissingCitation", label))

\* LogParser::process_warning
process_warning(self, m) ==
    LET info == process_generic(m)
        r    == MISSING_REFERENCE(info.details["message"])
        type_ == Unwrap(Get(r, 1))
    IN  IF "message" \in DOMAIN info.details /\ r.matched
        THEN IF type_ = << "Citation" >>
                 THEN Ok(process_missing_citation(self, Unwrap(Get(r, 2))))
             ELSE IF type_ = << "Reference" >>
                 THEN Ok(process_missing_reference(self, Unwrap(Get(r, 2))))
             ELSE Ok(self)
        ELSE Ok(Push([self EXCEPT !.report.warnings = @ + 1], Wrap("Warning", info)))

\* process_error taking the whole match, "! " included, as the bare message
process_error_whole_match(self, m) ==
    IF IsSome(Get(m, 5))
    THEN Ok(Push([self EXCEPT !.report.errors = @ + 1],
                 Wrap("Error", MessageInfo(m.full, Insert(EmptyMap, "message", m.full)))))
    ELSE Ok(Push([self EXCEPT !.report.errors = @ + 1],
                 Wrap("Error", process_generic(m))))

\* LogParser::process_error
process_error(self, m) ==
    IF IsSome(Get(m, 5))
    THEN Ok(Push([self EXCEPT !.report.errors = @ + 1],
                 Wrap("Error", MessageInfo(m.full,
                                           Insert(EmptyMap, "message", Unwrap(Get(m, 5)))))))
    ELSE Ok(Push([self EXCEPT !.report.errors = @ + 1],
                 Wrap("Error", process_generic(m))))

\* what after_match makes of the outcome of a process_* call
ThenAfterMatch(out) == IF out.panicked THEN out ELSE Ok(after_match(out.self))

\* parse_line with its four after_match calls live
parse_line_calls_after_match(self, line) ==
    IF INFO(line).matched THEN ThenAfterMatch(process_info(self, INFO(line)))
    ELSE IF BADBOX(line).matched THEN ThenAfterMatch(process_badbox(self, BADBOX(line)))
    ELSE IF WARNING(line).matched THEN ThenAfterMatch(process_warning(self, WARNING(line)))
    ELSE IF ERROR(line).matched THEN ThenAfterMatch(process_error(self, ERROR(line)))
    ELSE Ok(self)

\* parse_line recording a line no pattern matches as a bare error
parse_line_keeps_unmatched(self, line) ==
    IF INFO(line).matched THEN process_info(self, INFO(line))
    ELSE IF BADBOX(line).matched THEN process_badbox(self, BADBOX(line))
    ELSE IF WARNING(line).matched THEN process_warning(self, WARNING(line))
    ELSE IF ERROR(line).matched THEN process_error(self, ERROR(line))
    ELSE Ok(Push([self EXCEPT !.report.errors = @ + 1],
                 Wrap("Error", MessageInfo(line, Insert(EmptyMap, "message", line)))))

\* LogParser::parse_line
parse_line(self, line) ==
    IF INFO(line).matched THEN process_info(self, INFO(line))
    ELSE IF BADBOX(line).matched THEN process_badbox(self, BADBOX(line))
    ELSE IF WARNING(line).matched THEN process_warning(self, WARNING(line))
    ELSE IF ERROR(line).matched THEN process_error(self, ERROR(line))
    ELSE Ok(self)

\* format!("({}) ", cmpt)
Pattern(cmpt) == << "(" >> \o cmpt \o << ")", " " >>

\* The merger's test in LogParser::parse: the last message names a component
\* and the line starts with "(component) "
Continues(self, line) ==
    LET msgs == self.report.messages
    IN  /\ Len(msgs) > 0
        /\ IsSome(get_component_name(msgs[Len(msgs)]))
        /\ StartsWith(line, Pattern(Unwrap(get_component_name(msgs[Len(msgs)]))))

\* The merger's branch of LogParser::parse
Merge(self, line) ==
    LET n == Len(self.report.messages)
        last == self.report.messages[n]
        pattern == Pattern(Unwrap(get_component_name(last)))
        message == TrimStart(TrimStartMatches(line, pattern))
        ext == extend_message(last, message)
    IN  IF ext.panicked THEN Panic(self)
        ELSE Ok([self EXCEPT !.report.messages[n] = ext.msg, !.collect_remaining = 0])

\* The body of the loop of LogParser::parse, for the line next_line returned
ParseBody(self, line) ==
    IF Continues(self, line) THEN Merge(self, line) ELSE parse_line(self, line)

----------------------------------------------------------------------------
(* Inputs                                                                  *)

\* the number of reads of a pass before the input ends
MaxLines == 3

\* the largest value of the tunable handed to LogParser::new
MaxContext == 2

\* the value parse_log and tests::create_parser hand to LogParser::new
ParseLogContext == 2

NL == << "\n" >>

MissingTail == << " {grave}", "foo", "' on page ", "1", " undefined on input line " >>

W_Font     == << "LaTeX", " ", "Font", " ", "Warning", ":", " ", "foo" >> \o NL
E_babel    == << "!", " ", "Package", " ", "babel", " ", "Error", ":", " ", "foo" >> \o NL
I_article  == << "Class", " ", "article", " ", "Info", ":", " ", "foo" >> \o NL
W_plain    == << "LaTeX", " ", "Warning", ":", " ", "foo" >> \o NL
W_citation == << "LaTeX", " ", "Warning", ":", " ", "Citation" >> \o MissingTail \o << "7", "." >> \o NL
W_babelref == << "Package", " ", "babel", " ", "Warning", ":", " ", "Reference" >>
                 \o MissingTail \o << "7", "." >> \o NL
E_bare     == << "!", " ", "foo", " ", "bar", "." >> \o NL
B_under    == << "Under", "full \\", "v", "box (", "badness ", "1", ") ",
                 "has occurred while \\output is active [", "]" >> \o NL
B_overbad  == << "Over", "full \\", "h", "box (", "badness ", "1", ") ",
                 "in paragraph", " ", "at lines ", "1", "--", "2" >> \o NL
C_babel    == << "(", "babel", ")", " ", "bar" >> \o NL
C_indent   == << "(", "babel", ")", " ", " ", "\t", "bar", " ", "foo" >>
C_twice    == << "(", "babel", ")", " ", "(", "babel", ")", " ", "bar" >> \o NL
C_nospace  == << "(", "babel", ")", "bar" >> \o NL
C_article  == << "(", "article", ")", " ", "bar" >> \o NL
C_Font     == << "(", "Font", ")", " ", "bar" >> \o NL
Junk       == << "foo", " ", "bar" >> \o NL

\* the lines a pass is fed
PassLines ==
    { W_Font, E_babel, I_article, W_plain, W_citation, W_babelref, E_bare, B_under,
      B_overbad, C_babel, C_indent, C_twice, C_nospace, C_article, C_Font, Junk }

\* what one read_line call returns: Ok(n > 0) with the line, or Err
ReadOk(line) == [ok |-> TRUE, line |-> line]

ReadErr == [ok |-> FALSE, line |-> << >>]

\* the readers: every sequence of at most n reads over lines, a failing read among them
Readers(lines, n) ==
    UNION { [1..k -> {ReadOk(l) : l \in lines} \cup {ReadErr}] : k \in 0..n }

\* the lines handed to parse_line one at a time
GenericLines ==
    { pre \o << t >> \o nm \o << " ", kw >> \o ex \o << ":", " " >> \o msg \o term :
        pre \in { << >>, << "!", " " >> },
        t \in TypeTok,
        nm \in { << >>, << " ", "babel" >> },
        kw \in WarningKw \cup InfoKw \cup ErrorKw,
        ex \in { << >>, << " ", "(", "\\", "pdfsetmatrix", ")" >> },
        msg \in { << "foo", " ", "bar" >>,
                  << "Citation" >> \o MissingTail \o << "7", "." >>,
                  << "Reference" >> \o MissingTail \o << "7", ".", " ", "foo" >>,
                  << "Reference" >> \o MissingTail \o << "7", "5" >>,
                  << "Citation" >> \o MissingTail \o << "7" >>,
                  << "Citation" >> \o MissingTail \o << "7", "2", "." >> },
        term \in { << >>, NL } }

BadboxLines ==
    { << ty, "full \\", dir, "box (" >> \o by \o << ") " >> \o loc \o term :
        ty \in {"Over", "Under"},
        dir \in {"h", "v"},
        by \in { << "badness ", "1", "2" >>,
                 << "5", "2", ".", "7", "pt", " too ", "wide" >>,
                 << "7", "pt", " too ", "high" >> },
        loc \in { << "in paragraph", " ", "at lines ", "1", "--", "2" >>,
                  << "in alignment", " ", "at line ", "7" >>,
                  << "detected", " ", "at line ", "1", "5" >>,
                  << "has occurred while \\output is active [", "]" >>,
                  << "has occurred while \\output is active [", "5", "]" >>,
                  << "in paragraph", " " >> },
        term \in { << >>, NL } }

TestLines ==
    GenericLines \cup BadboxLines \cup PassLines \cup { << >>, << "!" >>, << "!", " " >> }

----------------------------------------------------------------------------
(* The state machine                                                       *)

Self ==
    [report |-> report, lineno |-> lineno, collect_remaining |-> collect_remaining,
     context_lines |-> context_lines]

\* the parser just constructed by LogParser::new(report, reader, ctx)
Fresh(ctx) ==
    /\ report = new(ctx).report
    /\ lineno = new(ctx).lineno
    /\ collect_remaining = new(ctx).collect_remaining
    /\ context_lines = new(ctx).context_lines
    /\ consumed = << >>
    /\ history = << >>
    /\ last_op = "none"
    /\ failed_at = -1

\* parse_log: a pass over a reader, with the tunable set to 2
Init ==
    /\ Fresh(ParseLogContext)
    /\ reader \in Readers(PassLines, MaxLines)
    /\ pending = << >>
    /\ pc = "parse"

Becomes(out) ==
    /\ report' = out.self.report
    /\ lineno' = out.self.lineno
    /\ collect_remaining' = out.self.collect_remaining
    /\ context_lines' = out.self.context_lines
    /\ history' = Append(history, out.self.report)

\* One turn of the loop of LogParser::parse: next_line returns Some(line)
NextLineSome ==
    /\ pc = "parse"
    /\ reader # << >>
    /\ Head(reader).ok
    /\ LET line == Head(reader).line
           self == [Self EXCEPT !.lineno = @ + 1]
           out  == ParseBody(self, line)
       IN  /\ Becomes(out)
           /\ consumed' = Append(consumed, line)
           /\ last_op' = IF out.panicked THEN "panicked"
                         ELSE IF Continues(self, line) THEN "absorbed" ELSE "classified"
           /\ pc' = IF out.panicked THEN "panicked" ELSE "parse"
    /\ reader' = Tail(reader)
    /\ UNCHANGED << pending, failed_at >>

\* read_line returns Ok(0): next_line returns None and parse returns
NextLineEof ==
    /\ pc = "parse"
    /\ reader = << >>
    /\ pc' = "done"
    /\ last_op' = "eof"
    /\ UNCHANGED << report, lineno, collect_remaining, context_lines, pending,
                    reader, consumed, history, failed_at >>

\* next_line skipping a failed read instead of ending the pass
NextLineErr_skips ==
    /\ pc = "parse"
    /\ reader # << >>
    /\ ~Head(reader).ok
    /\ pc' = "parse"
    /\ last_op' = "err"
    /\ failed_at' = Len(consumed)
    /\ reader' = Tail(reader)
    /\ UNCHANGED << report, lineno, collect_remaining, context_lines, pending,
                    consumed, history >>

\* read_line returns Err: next_line returns None and parse returns
NextLineErr ==
    /\ pc = "parse"
    /\ reader # << >>
    /\ ~Head(reader).ok
    /\ pc' = "done"
    /\ last_op' = "err"
    /\ failed_at' = Len(consumed)
    /\ reader' = Tail(reader)
    /\ UNCHANGED << report, lineno, collect_remaining, context_lines, pending,
                    consumed, history >>

Next == NextLineSome \/ NextLineEof \/ NextLineErr

Spec == Init /\ [][Next]_vars

\* the lines a pass is fed when the tunable varies
CtxLines == { W_Font, E_babel, W_citation, B_under, B_overbad, C_babel, C_Font, Junk }

\* LogParser::new with any value of the tunable, then parse
InitNew ==
    /\ \E ctx \in 0..MaxContext : Fresh(ctx)
    /\ reader \in Readers(CtxLines, MaxLines)
    /\ pending = << >>
    /\ pc = "parse"

SpecNew == InitNew /\ [][Next]_vars

\* tests::create_parser: parse_line called on a parser just constructed
InitLine ==
    /\ Fresh(ParseLogContext)
    /\ reader = << >>
    /\ pending \in TestLines
    /\ pc = "test"

TestParseLine ==
    /\ pc = "test"
    /\ LET out == parse_line(Self, pending)
       IN  /\ Becomes(out)
           /\ last_op' = IF out.panicked THEN "panicked" ELSE "classified"
           /\ pc' = IF out.panicked THEN "panicked" ELSE "done"
    /\ consumed' = Append(consumed, pending)
    /\ UNCHANGED << pending, reader, failed_at >>

NextLine == TestParseLine

SpecLine == InitLine /\ [][NextLine]_vars

----------------------------------------------------------------------------
(* Properties                                                              *)

\* the number of entries of a kind in a message list
Count(msgs, kind) == Cardinality({ i \in 1..Len(msgs) : msgs[i].kind = kind })

\* C1: in every state of a pass each of the six counters of the report equals
\* the number of entries of its own kind in the message list; the two label
\* variants are therefore not counted in warnings.
C1_CountersMatchEntries ==
    /\ report.errors = Count(report.messages, "Error")
    /\ report.warnings = Count(report.messages, "Warning")
    /\ report.badboxes = Count(report.messages, "Badbox")
    /\ report.info = Count(report.messages, "Info")
    /\ report.missing_references = Count(report.messages, "MissingReference")
    /\ report.missing_citations = Count(report.messages, "MissingCitation")

\* a pass that has recorded a missing citation, a warning and a merged line
C1_Witness ==
    /\ report.missing_citations = 1
    /\ report.warnings = 1
    /\ last_op = "absorbed"

\* the report before the n-th consumed line was processed is Hist(n - 1)
Hist(k) == IF k = 0 THEN NewReport ELSE history[k]

Last(s) == s[Len(s)]

\* a line without its line terminator
Content(line) == IF Len(line) > 0 /\ Last(line) = "\n" THEN Slice(line, 1, Len(line) - 1) ELSE line

NameKeys == {"component", "package", "class"}

\* an Error, Warning or Info record that carries a component, package or class field
HasName(e) == e.kind \in {"Error", "Warning", "Info"} /\ NameKeys \cap DOMAIN e.info.details # {}

NameOf(e) == e.info.details[CHOOSE k \in NameKeys \cap DOMAIN e.info.details : TRUE]

Counters(r) ==
    << r.errors, r.warnings, r.badboxes, r.info, r.missing_references, r.missing_citations >>

\* the text of a continuation line: the prefix "(name) " taken off once and the
\* leading whitespace of the rest removed
ContinuationText(line, name) == TrimStart(From(line, Len(Pattern(name)) + 1))

\* the continuation texts of consumed[i..n], in input order; keep tells whether
\* a line is taken with its line terminator
RECURSIVE Texts(_, _, _, _)
Texts(i, n, name, keep) ==
    IF i > n THEN << >>
    ELSE ContinuationText(IF keep THEN consumed[i] ELSE Content(consumed[i]), name)
            \o Texts(i + 1, n, name, keep)

\* consumed[i] made a named record and every later line consumed so far starts
\* with "(name) "
Block(i) ==
    /\ Len(Hist(i).messages) = Len(Hist(i - 1).messages) + 1
    /\ HasName(Last(Hist(i).messages))
    /\ \A j \in (i + 1)..Len(consumed) :
          StartsWith(consumed[j], Pattern(NameOf(Last(Hist(i).messages))))

\* C2: a Warning, Error or Info line with a component name followed by k >= 1
\* lines that start with "(name) " leaves one diagnostic for the k+1 lines: its
\* message is the first message with the k continuation texts appended in input
\* order, and the list length and the six counters are those after the first
\* line.  (The texts are accepted with or without their line terminators.)
C2_ContinuationsFold ==
    \A i \in 1..(Len(consumed) - 1) :
        Block(i) /\ last_op # "panicked" =>
            LET first == Last(Hist(i).messages)
                n == Len(consumed)
            IN  /\ Len(report.messages) = Len(Hist(i).messages)
                /\ Counters(report) = Counters(Hist(i))
                /\ Last(report.messages).kind = first.kind
                /\ \E keep \in BOOLEAN :
                      Last(report.messages).info.details["message"] =
                          first.info.details["message"] \o Texts(i + 1, n, NameOf(first), keep)

\* C10: the text the merger appends is the line with "(name) " taken off once
\* and the leading whitespace of the rest removed, put right after the message
\* with nothing between.  (Accepted with or without the line terminator.)
C10_AppendedText ==
    last_op = "absorbed" =>
        LET n == Len(consumed)
            before == Last(Hist(n - 1).messages)
        IN  \E keep \in BOOLEAN :
              Last(report.messages).info.details["message"] =
                  before.info.details["message"]
                      \o ContinuationText(IF keep THEN consumed[n] ELSE Content(consumed[n]),
                                          NameOf(before))

\* the claim's condition for the merger to take the line
Absorbable(before, line) ==
    /\ Len(before.messages) > 0
    /\ HasName(Last(before.messages))
    /\ StartsWith(line, Pattern(NameOf(Last(before.messages))))

\* what the classifier alone makes of the line
Classified(before, line) == parse_line([new(context_lines) EXCEPT !.report = before], line).self.report

\* C9: parse hands a line to the merger exactly when the last entry of the list
\* is an Error, Warning or Info record with a component, package or class name
\* and the line starts with "(name) ", however many dropped lines lie between;
\* the merger changes the message of the last entry only; every other line goes
\* to the classifier and the entries already in the list stay as they were.
C9_MergerTakesExactlyContinuations ==
    last_op \in {"absorbed", "classified", "panicked"} /\ pending = << >> =>
        LET n == Len(consumed)
            before == Hist(n - 1)
            k == Len(before.messages)
        IN  /\ (last_op = "absorbed") <=> Absorbable(before, consumed[n])
            /\ last_op = "absorbed" =>
                  /\ Len(report.messages) = k
                  /\ Counters(report) = Counters(before)
                  /\ SubSeq(report.messages, 1, k - 1) = SubSeq(before.messages, 1, k - 1)
                  /\ report.messages[k].kind = before.messages[k].kind
                  /\ report.messages[k].info.full = before.messages[k].info.full
                  /\ \A f \in DOMAIN before.messages[k].info.details \ {"message"} :
                        report.messages[k].info.details[f] = before.messages[k].info.details[f]
                  /\ DOMAIN report.messages[k].info.details = DOMAIN before.messages[k].info.details
            /\ last_op # "absorbed" =>
                  /\ SubSeq(report.messages, 1, k) = before.messages
                  /\ report = Classified(before, consumed[n])

\* a continuation taken although a dropped line lies between it and its record
C9_Witness ==
    /\ last_op = "absorbed"
    /\ Len(consumed) = 3
    /\ consumed[2] = Junk
    /\ Last(report.messages).kind = "Info"

\* a pass over the given lines: LogParser::new(ctx) and the loop of parse, to
\* the end of the lines or to a panic
RECURSIVE PassFrom(_, _)
PassFrom(self, lines) ==
    IF lines = << >> THEN self
    ELSE LET out == ParseBody([self EXCEPT !.lineno = @ + 1], Head(lines))
         IN  IF out.panicked THEN out.self ELSE PassFrom(out.self, Tail(lines))

PassOver(lines, ctx) == PassFrom(new(ctx), lines)

\* C7: when a read fails the pass ends there: no line is read after it, and the
\* report is the report of a pass over the lines read before the failure.
C7_ReadFailureEndsPass ==
    failed_at >= 0 =>
        /\ pc = "done"
        /\ Len(consumed) = failed_at
        /\ lineno = failed_at
        /\ report = PassOver(SubSeq(consumed, 1, failed_at), context_lines).report

\* a read that fails after a line was recorded and with lines still to come
C7_Witness ==
    /\ failed_at = 1
    /\ pc = "done"
    /\ Len(report.messages) = 1
    /\ reader # << >>
    /\ Head(reader).ok

\* C8: whatever value LogParser::new is given, collect_remaining stays 0, the
\* context_lines list of every record stays empty, and the report is the report
\* of the same lines under every other value of the tunable.
C8_TunableInert ==
    /\ collect_remaining = 0
    /\ \A i \in 1..Len(report.messages) :
          report.messages[i].kind \in InfoKinds => report.messages[i].info.context_lines = << >>
    /\ \A ctx \in 0..MaxContext : PassOver(consumed, ctx).report = report

\* a finished pass under a value other than parse_log's, with a merged record
C8_Witness ==
    /\ context_lines = 1
    /\ pc = "done"
    /\ Len(consumed) = 3
    /\ Len(report.messages) = 2
    /\ last_op = "eof"
    /\ \E i \in 1..2 : report.messages[i].kind = "Warning"
                        /\ Len(report.messages[i].info.details["message"]) > 1

----------------------------------------------------------------------------
(* Properties of one parse_line call.  The line is the last consumed one,  *)
(* the report before the call is Hist(n - 1).                              *)

TheLine == Last(consumed)

Before == Hist(Len(consumed) - 1)

\* the call added one entry at the end of the list
Appended ==
    /\ Len(report.messages) = Len(Before.messages) + 1
    /\ SubSeq(report.messages, 1, Len(Before.messages)) = Before.messages

Called == last_op \in {"classified", "panicked"}

\* the line is classified as a Warning: INFO and BADBOX decline, WARNING matches
IsWarningLine(line) ==
    ~INFO(line).matched /\ ~BADBOX(line).matched /\ WARNING(line).matched

\* The shape of the claim, read with its full stop:
\*   (Citation|Reference) {grave}label' on page N undefined on input line N.
\* with N a number and label free of quotes, at the start of the message.
ClaimShape(msg) ==
    LET k  == QuotePos(msg, 3)
        pg == RunEnd(msg, k + 1, DigitTok)
        ln == RunEnd(msg, pg + 2, DigitTok)
    IN  /\ At(msg, 1) \in {"Citation", "Reference"}
        /\ At(msg, 2) = " {grave}"
        /\ k > 3 /\ At(msg, k) = "' on page "
        /\ pg >= k + 1 /\ At(msg, pg + 1) = " undefined on input line "
        /\ ln >= pg + 2 /\ At(msg, ln + 1) = "."

ShapeLabel(msg) == Slice(msg, 3, QuotePos(msg, 3) - 1)

\* C3: a parse_line call appends a MissingCitation or MissingReference entry
\* exactly when the line is classified as a Warning and its message has the
\* shape above; the entry then follows the keyword and carries the label, its
\* own counter goes up by one, warnings does not and no Warning entry is added.
\* A Warning of any other message is kept and counted in warnings.
C3_RecodedExactlyOnShape ==
    last_op = "classified" =>
        LET msg == Unwrap(Get(WARNING(TheLine), 4))
            shaped == IsWarningLine(TheLine) /\ ClaimShape(msg)
            recoded == Appended /\ Last(report.messages).kind \in {"MissingCitation", "MissingReference"}
        IN  /\ recoded <=> shaped
            /\ recoded =>
                  /\ Last(report.messages).kind =
                        (IF msg[1] = "Citation" THEN "MissingCitation" ELSE "MissingReference")
                  /\ Last(report.messages).label = ShapeLabel(msg)
                  /\ report.missing_citations + report.missing_references =
                        Before.missing_citations + Before.missing_references + 1
                  /\ report.missing_citations =
                        Before.missing_citations + (IF msg[1] = "Citation" THEN 1 ELSE 0)
                  /\ report.warnings = Before.warnings
                  /\ Count(report.messages, "Warning") = Count(Before.messages, "Warning")
            /\ IsWarningLine(TheLine) /\ ~ClaimShape(msg) =>
                  /\ Appended
                  /\ Last(report.messages).kind = "Warning"
                  /\ report.warnings = Before.warnings + 1

\* C4: every line BADBOX accepts is classified without a panic into one Badbox
\* entry whose by field is the point size when the type is Over and the badness
\* when it is Under; badboxes goes up by one, errors, warnings and info stay.
C4_BadboxAlwaysRecorded ==
    Called /\ BADBOX(TheLine).matched =>
        /\ last_op = "classified"
        /\ Appended
        /\ Last(report.messages).kind = "Badbox"
        /\ "by" \in DOMAIN Last(report.messages).info.details
        /\ Last(report.messages).info.details["by"] =
              (IF TheLine[1] = "Over" THEN Unwrap(Get(BADBOX(TheLine), 4))
                                      ELSE Unwrap(Get(BADBOX(TheLine), 3)))
        /\ report.badboxes = Before.badboxes + 1
        /\ << report.errors, report.warnings, report.info >> =
              << Before.errors, Before.warnings, Before.info >>

\* a line that starts with "! " and has not the component-keyword error shape
IsBareError(line) ==
    At(line, 1) = "!" /\ At(line, 2) = " " /\ ~GenericCaptures(line, 3, ErrorKw).matched

\* C5: a bare "! message" line makes one Error entry whose only field is
\* message, the text of the line after "! "; errors goes up by one.
C5_BareErrorMessage ==
    Called /\ IsBareError(TheLine) =>
        /\ last_op = "classified"
        /\ Appended
        /\ Last(report.messages).kind = "Error"
        /\ DOMAIN Last(report.messages).info.details = {"message"}
        /\ Last(report.messages).info.details["message"] = From(Content(TheLine), 3)
        /\ Counters(report) = Counters([Before EXCEPT !.errors = @ + 1])

\* a bare error whose text looks like a warning of a named package
C5_Witness ==
    /\ pc = "done"
    /\ IsBareError(TheLine)
    /\ At(TheLine, 3) = "Package" /\ At(TheLine, 7) \in WarningKw
    /\ Last(TheLine) = "\n"
    /\ report.errors = 1

\* the recognizers in the order parse_line tries them
FirstRecognizer(line) ==
    IF INFO(line).matched THEN "Info"
    ELSE IF BADBOX(line).matched THEN "Badbox"
    ELSE IF WARNING(line).matched THEN "Warning"
    ELSE IF ERROR(line).matched THEN "Error"
    ELSE "none"

\* the variants the entry of a recognizer can have
VariantsOf(recognizer) ==
    IF recognizer = "Warning" THEN {"Warning", "MissingCitation", "MissingReference"}
    ELSE {recognizer}

\* C6: a parse_line call appends at most one entry, that of the first recognizer
\* that matches in the order Info, Badbox, Warning, Error; a line none of them
\* matches leaves the whole report as it was and raises no error.
C6_AtMostOneEntry ==
    Called =>
        /\ Appended \/ report = Before
        /\ Appended => Last(report.messages).kind \in VariantsOf(FirstRecognizer(TheLine))
        /\ FirstRecognizer(TheLine) = "none" => report = Before /\ last_op = "classified"

\* an error of a named package without its "! ": no recognizer matches, the
\* call returns and the report is as it was
C6_Witness ==
    /\ pc = "done"
    /\ FirstRecognizer(TheLine) = "none"
    /\ At(TheLine, 1) = "Package"
    /\ At(TheLine, 5) \in ErrorKw
    /\ report = NewReport

----------------------------------------------------------------------------
(* The message list over a pass                                            *)

\* now is was with text added at the end of its message field and nothing
\* else changed: the variant, full, context_lines and every other field stay
OnlyMessageExtended(was, now) ==
    /\ was.kind \in InfoKinds
    /\ now.kind = was.kind
    /\ now.info.full = was.info.full
    /\ now.info.context_lines = was.info.context_lines
    /\ DOMAIN now.info.details = DOMAIN was.info.details
    /\ "message" \in DOMAIN was.info.details
    /\ \A f \in DOMAIN was.info.details \ {"message"} :
          now.info.details[f] = was.info.details[f]
    /\ StartsWith(now.info.details["message"], was.info.details["message"])

\* the list b became the list a by one of the three permitted changes
ListStep(b, a) ==
    \/ a = b
    \/ Len(a) = Len(b) + 1 /\ SubSeq(a, 1, Len(b)) = b
    \/ /\ Len(b) > 0
       /\ Len(a) = Len(b)
       /\ SubSeq(a, 1, Len(b) - 1) = SubSeq(b, 1, Len(b) - 1)
       /\ OnlyMessageExtended(Last(b), Last(a))

\* the number of entries the first n consumed lines left in the list
Made(n) == Len(Hist(n).messages)

\* C11: the message list is append-only and in input order.  Each consumed
\* line leaves the list as it was, appends one entry at its end, or extends the
\* message field of its last entry; a step that consumes no line leaves the
\* report as it was; so an entry, once made, keeps its place, its variant, its
\* full text and every field but message, and the entries of earlier lines come
\* before those of later lines.
C11_AppendOnly ==
    /\ report = Hist(Len(consumed))
    /\ \A n \in 1..Len(consumed) : ListStep(Hist(n - 1).messages, Hist(n).messages)
    /\ \A m \in 1..Len(consumed) : \A n \in m..Len(consumed) :
          /\ Made(m) <= Made(n)
          /\ \A i \in 1..Made(m) :
                \/ Hist(n).messages[i] = Hist(m).messages[i]
                \/ i = Made(m) /\ OnlyMessageExtended(Hist(m).messages[i], Hist(n).messages[i])

\* three lines: an entry, a second entry, and a continuation merged into the
\* second while the first stays as it was made
C11_Witness ==
    /\ Len(consumed) = 3
    /\ Made(1) = 1 /\ Made(2) = 2 /\ Made(3) = 2
    /\ last_op = "absorbed"
    /\ Hist(3).messages[2] # Hist(2).messages[2]
    /\ Hist(3).messages[1] = Hist(1).messages[1]

====
